---- MODULE Spec2Model ----
(***************************************************************************)
(* GitExtractor (git_scanner.py): probe, bootstrap download, HEAD          *)
(* resolution, pooled object download and pack download.                   *)
(*                                                                         *)
(* Text is a sequence of one-character strings, so that strip, split,      *)
(* slicing, replace and the regular expressions are computed character by  *)
(* character as Python computes them.                                      *)
(***************************************************************************)
EXTENDS Integers, Sequences, FiniteSets, TLC

(***************************************************************************)
(* Bounds of the model.                                                    *)
(***************************************************************************)
MaxThreads == 2
MaxHashes == 3

(***************************************************************************)
(* Program constants.                                                      *)
(***************************************************************************)
HashLen == 40
ProbeCount == 3
StatusOK == 200

(***************************************************************************)
(* Python string operations.                                               *)
(***************************************************************************)
Rep(c, n) == [j \in 1..n |-> c]

HexDigits == {"0","1","2","3","4","5","6","7","8","9","a","b","c","d","e","f"}

Whitespace == {" ", "\n", "\t", "\r"}

None == <<"<None>">>

\* s[a:] for a 0-based offset a
From(s, a) == IF a >= Len(s) THEN <<>> ELSE SubSeq(s, a + 1, Len(s))

\* s[:b]
Upto(s, b) == IF b >= Len(s) THEN s ELSE SubSeq(s, 1, b)

startswith(s, p) == Len(s) >= Len(p) /\ SubSeq(s, 1, Len(p)) = p

RECURSIVE lstrip(_)
lstrip(s) == IF s # <<>> /\ Head(s) \in Whitespace THEN lstrip(Tail(s)) ELSE s

RECURSIVE rstrip(_)
rstrip(s) ==
    IF s # <<>> /\ s[Len(s)] \in Whitespace THEN rstrip(SubSeq(s, 1, Len(s) - 1)) ELSE s

strip(s) == rstrip(lstrip(s))

\* s.find(sep): 1-based index of the first occurrence of sep in s, 0 if none
RECURSIVE FindFrom(_, _, _)
FindFrom(s, sep, j) ==
    IF j + Len(sep) - 1 > Len(s) THEN 0
    ELSE IF SubSeq(s, j, j + Len(sep) - 1) = sep THEN j
    ELSE FindFrom(s, sep, j + 1)

find(s, sep) == FindFrom(s, sep, 1)

\* s.split(sep): the list of the parts of s between the occurrences of sep
RECURSIVE split(_, _)
split(s, sep) ==
    LET j == find(s, sep)
    IN IF j = 0 THEN <<s>>
       ELSE <<SubSeq(s, 1, j - 1)>> \o split(From(s, j + Len(sep) - 1), sep)

\* s.replace(old, new): every occurrence of old replaced, left to right
RECURSIVE replace(_, _, _)
replace(s, old, new) ==
    LET j == find(s, old)
    IN IF j = 0 THEN s
       ELSE SubSeq(s, 1, j - 1) \o new \o replace(From(s, j + Len(old) - 1), old, new)

\* os.path.join(a, b)
join(a, b) ==
    IF b # <<>> /\ Head(b) = "/" THEN b
    ELSE IF a = <<>> \/ a[Len(a)] = "/" THEN a \o b
    ELSE a \o <<"/">> \o b

\* index of the last "/" of p, 0 if none
RECURSIVE LastSlash(_, _)
LastSlash(p, j) == IF j = 0 THEN 0 ELSE IF p[j] = "/" THEN j ELSE LastSlash(p, j - 1)

\* os.path.dirname(p)
dirname(p) ==
    LET j == LastSlash(p, Len(p))
        h == SubSeq(p, 1, j)
        RECURSIVE cut(_)
        cut(x) == IF x # <<>> /\ x[Len(x)] = "/" THEN cut(SubSeq(x, 1, Len(x) - 1)) ELSE x
    IN IF j = 0 THEN <<>>
       ELSE IF cut(h) = <<>> THEN h ELSE cut(h)

(***************************************************************************)
(* Literals of the source.                                                 *)
(***************************************************************************)
ref_colon == <<"r","e","f",":">>

ref_colon_space == <<"r","e","f",":"," ">>

dot_pack == <<".","p","a","c","k">>

dot_idx == <<".","i","d","x">>

objects_prefix == <<".","g","i","t","/","o","b","j","e","c","t","s","/">>

pack_prefix == <<".","g","i","t","/","o","b","j","e","c","t","s","/","p","a","c","k","/">>

HEAD_name == <<"H","E","A","D">>

packs_info_name == <<"o","b","j","e","c","t","s","/","i","n","f","o","/","p","a","c","k","s">>

(***************************************************************************)
(* GitExtractor.__init__: the catalog, the patterns, the directories.      *)
(***************************************************************************)
output_dir == <<"o","u","t">>

dot_git == <<".","g","i","t">>

git_dir == join(output_dir, dot_git)

\* the catalog with refs/heads/main listed twice
git_files_Duplicate ==
    << <<".","g","i","t","/","H","E","A","D">>,
       <<".","g","i","t","/","c","o","n","f","i","g">>,
       <<".","g","i","t","/","d","e","s","c","r","i","p","t","i","o","n">>,
       <<".","g","i","t","/","i","n","f","o","/","e","x","c","l","u","d","e">>,
       <<".","g","i","t","/","o","b","j","e","c","t","s","/","i","n","f","o","/","p","a","c","k","s">>,
       <<".","g","i","t","/","r","e","f","s","/","h","e","a","d","s","/","m","a","i","n">>,
       <<".","g","i","t","/","r","e","f","s","/","h","e","a","d","s","/","m","a","i","n">>,
       <<".","g","i","t","/","i","n","d","e","x">> >>

git_files ==
    << <<".","g","i","t","/","H","E","A","D">>,
       <<".","g","i","t","/","c","o","n","f","i","g">>,
       <<".","g","i","t","/","d","e","s","c","r","i","p","t","i","o","n">>,
       <<".","g","i","t","/","i","n","f","o","/","e","x","c","l","u","d","e">>,
       <<".","g","i","t","/","o","b","j","e","c","t","s","/","i","n","f","o","/","p","a","c","k","s">>,
       <<".","g","i","t","/","r","e","f","s","/","h","e","a","d","s","/","m","a","s","t","e","r">>,
       <<".","g","i","t","/","r","e","f","s","/","h","e","a","d","s","/","m","a","i","n">>,
       <<".","g","i","t","/","i","n","d","e","x">> >>

\* ref_pattern written with {39}: a 40-character hash no longer matches
ref_pattern_match_Len39(s) ==
    /\ Len(s) = HashLen - 1
    /\ \A j \in 1..(HashLen - 1) : s[j] \in HexDigits

\* ref_pattern.match(s) for ^[0-9a-f]{40}$ ($ also matches before a final newline)
ref_pattern_match(s) ==
    /\ \/ Len(s) = HashLen
       \/ Len(s) = HashLen + 1 /\ s[HashLen + 1] = "\n"
    /\ \A j \in 1..HashLen : s[j] \in HexDigits

\* End of the match of pack_pattern  P ([0-9a-f]{40}) (.+\.pack)  that starts
\* at index j of s, 0 if there is none.  ".+" is greedy and stops at a newline.
RECURSIVE LineEnd(_, _)
LineEnd(s, j) == IF j > Len(s) \/ s[j] = "\n" THEN j - 1 ELSE LineEnd(s, j + 1)

pack_pattern_match_end(s, j) ==
    LET n == j + HashLen + 3
        L == LineEnd(s, n)
        ends == {e \in (n + Len(dot_pack))..L : SubSeq(s, e - Len(dot_pack) + 1, e) = dot_pack}
    IN IF /\ j + HashLen + 2 <= Len(s)
          /\ s[j] = "P"
          /\ s[j + 1] = " "
          /\ \A h \in (j + 2)..(j + HashLen + 1) : s[h] \in HexDigits
          /\ s[j + HashLen + 2] = " "
          /\ ends # {}
       THEN CHOOSE e \in ends : \A f \in ends : f <= e
       ELSE 0

\* pack_pattern.findall(s): the (hash, filename) groups of the successive matches
RECURSIVE pack_pattern_findall_from(_, _)
pack_pattern_findall_from(s, j) ==
    IF j > Len(s) THEN <<>>
    ELSE LET e == pack_pattern_match_end(s, j)
         IN IF e = 0 THEN pack_pattern_findall_from(s, j + 1)
            ELSE << <<SubSeq(s, j + 2, j + HashLen + 1), SubSeq(s, j + HashLen + 3, e)>> >>
                 \o pack_pattern_findall_from(s, e + 1)

pack_pattern_findall(s) == pack_pattern_findall_from(s, 1)

(***************************************************************************)
(* The server: what a request for a path can answer.                       *)
(***************************************************************************)
H1 == Rep("a", HashLen)

H2 == Rep("b", HashLen)

NotHex == Rep("z", HashLen)

Data == <<"d">>

ErrPage == <<"e">>

HeadBodies ==
    { H1 \o <<"\n">>,
      <<"r","e","f",":"," ","r","e","f","s","/","h","e","a","d","s","/","m","a","i","n","\n">>,
      <<"r","e","f",":"," ","r","e","f","s","/","h","e","a","d","s","/","d","e","v","\n">>,
      <<"r","e","f",":"," ","r","e","f","s","/","h","e","a","d","s","\n">>,
      <<"r","e","f",":","r","e","f","s","/","h","e","a","d","s","/","m","a","i","n","\n">>,
      <<"r","e","f",":"," ",".",".","/",".",".","/","e","v","i","l","\n">>,
      <<"r","e","f",":"," ","/","t","m","p","/","e","v","i","l","\n">>,
      <<"j","u","n","k","\n">> }

RefBodies == { H1 \o <<"\n">>, NotHex, <<"a","b","c","\n">> }

ManifestLine(h, name) == <<"P", " ">> \o h \o <<" ">> \o name \o <<"\n">>

ManifestOne == ManifestLine(H1, <<"p","a","c","k","-","1",".","p","a","c","k">>)

ManifestTwo == ManifestLine(H1, <<"a",".","p","a","c","k">>) \o ManifestLine(H2, <<"b",".","p","a","c","k",".","p","a","c","k">>)

ManifestNoMatch == <<"P"," ","x",".","p","a","c","k","\n">>

ManifestBodies == {ManifestOne, ManifestNoMatch}

Statuses == {StatusOK, 203, 404}

TransportError == [kind |-> "error"]

Resp(st, b) == [kind |-> "response", status_code |-> st, content |-> b]

Bodies(path) ==
    IF path = git_files[1] THEN HeadBodies
    ELSE IF path = git_files[5] THEN ManifestBodies
    ELSE IF path = git_files[6] THEN {H2 \o <<"\n">>}
    ELSE IF startswith(path, <<".","g","i","t","/","r","e","f","s","/">>) THEN RefBodies
    ELSE {Data}

\* session.get(url): a status with a body, or an exception
Responses(path) ==
    {Resp(StatusOK, b) : b \in Bodies(path)}
        \cup {Resp(st, ErrPage) : st \in Statuses \ {StatusOK}}
        \cup {TransportError}

\* session.head(url): a status without a body, or an exception
HeadResponses == {Resp(st, <<>>) : st \in Statuses} \cup {TransportError}

(***************************************************************************)
(* The output tree: files (path -> bytes) and dirs (set of paths).         *)
(***************************************************************************)
exists(fl, ds, p) == p \in DOMAIN fl \/ p \in ds

\* the directories os.makedirs(d) has to find or make: d and its ancestors
Ancestors(d) ==
    {SubSeq(d, 1, j - 1) : j \in {h \in 2..Len(d) : d[h] = "/"}} \cup (IF d = <<>> THEN {} ELSE {d})

\* os.makedirs(d, exist_ok=True) raises when a component is a file
makedirs_raises(fl, d) == d = <<>> \/ \E a \in Ancestors(d) : a \in DOMAIN fl

\* open(p, 'wb') raises when p is a directory
open_wb_raises(ds, p) == p \in ds \/ p[Len(p)] = "/"

Write(fl, p, b) == [q \in DOMAIN fl \cup {p} |-> IF q = p THEN b ELSE fl[q]]

\* the status test of download_file (line 56) and of check_git_exists (line 79)
is_success(resp) == resp.kind = "response" /\ resp.status_code = StatusOK

\* download_file without the status test of line 56: any answer is saved
download_file_AnyStatus(fl, ds, path, resp) ==
    LET local_path == join(output_dir, path)
        ds2 == ds \cup Ancestors(dirname(local_path))
    IN IF resp.kind # "response"
       THEN [files |-> fl, dirs |-> ds, ret |-> FALSE, raised |-> FALSE]
       ELSE [files |-> Write(fl, local_path, resp.content), dirs |-> ds2,
             ret |-> TRUE, raised |-> FALSE]

\* download_file(path) on the tree (fl, ds) when the transport answers resp:
\* the tree afterwards, the value returned, and whether an exception escapes
download_file(fl, ds, path, resp) ==
    LET local_path == join(output_dir, path)
        d == dirname(local_path)
        ds2 == ds \cup Ancestors(d)
    IN IF ~is_success(resp)
       THEN [files |-> fl, dirs |-> ds, ret |-> FALSE, raised |-> FALSE]
       ELSE IF makedirs_raises(fl, d)
       THEN [files |-> fl, dirs |-> ds, ret |-> FALSE, raised |-> FALSE]
       ELSE IF open_wb_raises(ds2, local_path)
       THEN [files |-> fl, dirs |-> ds2, ret |-> FALSE, raised |-> FALSE]
       ELSE [files |-> Write(fl, local_path, resp.content), dirs |-> ds2,
             ret |-> TRUE, raised |-> FALSE]

(***************************************************************************)
(* State.                                                                  *)
(***************************************************************************)
VARIABLES
    pc,             \* where the calling thread is
    i,              \* index of the loop the calling thread is in
    files,          \* the files of the output tree: path -> bytes
    dirs,           \* the directories of the output tree
    reqs,           \* the requests issued so far, in order, with their outcome
    last,           \* the last request: path, answer, and what the caller made of it
    head_hash,      \* execute: the value returned by extract_hash_from_head
    ref_path,       \* extract_hash_from_head: the target of the symbolic ref
    hashes,         \* download_objects: its argument
    futures,        \* download_objects: the paths submitted to the executor
    started,        \* executor: the submitted calls a worker has begun
    done,           \* executor: the submitted calls that have finished
    threads,        \* self.threads
    pack_matches,   \* download_pack_files: the matches of the manifest
    result,         \* what execute returned: "none" while it runs
    first           \* how an earlier run on this output directory ended, if any

vars == <<pc, i, files, dirs, reqs, last, head_hash, ref_path, hashes, futures,
          started, done, threads, pack_matches, result, first>>

\* no earlier run
NoRun == [pc |-> "none", files |-> <<>>, dirs |-> {}, served |-> {}]

NoCall == [path |-> <<>>, resp |-> TransportError, ret |-> FALSE]

Request(m, p, by, ok) == [method |-> m, path |-> p, by |-> by, ok |-> ok]

\* `not x` for a string or None
falsy(x) == x = None \/ x = <<>>

\* the calls of download_file that have begun and not finished
inflight == started \ done

head_path == join(git_dir, HEAD_name)

local_ref_path == join(join(output_dir, dot_git), ref_path)

packs_info_path == join(git_dir, packs_info_name)

\* the object path with the file name cut one character late (git_hash[3:])
obj_path_SliceFromThree(git_hash) ==
    objects_prefix \o Upto(git_hash, 2) \o <<"/">> \o From(git_hash, 3)

\* the object path of download_objects (lines 132-134)
obj_path(git_hash) == objects_prefix \o Upto(git_hash, 2) \o <<"/">> \o From(git_hash, 2)

\* the paths of download_pack_files (lines 152-153)
pack_path(pack_file) == pack_prefix \o pack_file

idx_path(pack_file) == pack_prefix \o replace(pack_file, dot_pack, dot_idx)

\* __init__ (lines 41-46) on a fresh output directory.  execute() hands one hash
\* to the pool, so one pool size is enough here; PoolSpec varies it.
Init ==
    /\ pc = "check_git_exists"
    /\ i = 1
    /\ files = <<>>
    /\ dirs = {output_dir, git_dir}
    /\ reqs = <<>>
    /\ last = NoCall
    /\ head_hash = None
    /\ ref_path = None
    /\ hashes = <<>>
    /\ futures = <<>>
    /\ started = {}
    /\ done = {}
    /\ threads = MaxThreads
    /\ pack_matches = <<>>
    /\ result = "none"
    /\ first = NoRun

\* one call of download_file(path) by component `by`, answered by resp
Fetch(path, resp, by) ==
    LET r == download_file(files, dirs, path, resp)
    IN /\ files' = r.files
       /\ dirs' = r.dirs
       /\ reqs' = Append(reqs, Request("GET", path, by, r.ret))
       /\ last' = [path |-> path, resp |-> resp, ret |-> r.ret]

\* whether download_file(path) answered by resp lets an exception escape
Escapes(path, resp) == download_file(files, dirs, path, resp).raised

\* check_git_exists without its final `return False`: the run goes on
Probe_NoAbort ==
    /\ pc = "check_git_exists"
    /\ \E resp \in HeadResponses :
        /\ reqs' = Append(reqs, Request("HEAD", git_files[i], "check_git_exists",
                                        is_success(resp)))
        /\ last' = [path |-> git_files[i], resp |-> resp, ret |-> is_success(resp)]
        /\ IF is_success(resp) \/ i >= ProbeCount
           THEN pc' = "download_git_files" /\ i' = 1 /\ result' = result
           ELSE pc' = pc /\ i' = i + 1 /\ result' = result
    /\ UNCHANGED <<files, dirs, head_hash, ref_path, hashes, futures, started,
                   done, threads, first, pack_matches>>

(***************************************************************************)
(* check_git_exists: one iteration of the loop over git_files[:3].         *)
(***************************************************************************)
Probe ==
    /\ pc = "check_git_exists"
    /\ \E resp \in HeadResponses :
        /\ reqs' = Append(reqs, Request("HEAD", git_files[i], "check_git_exists",
                                        is_success(resp)))
        /\ last' = [path |-> git_files[i], resp |-> resp, ret |-> is_success(resp)]
        /\ IF is_success(resp)
           THEN pc' = "download_git_files" /\ i' = 1 /\ result' = result
           ELSE IF i < ProbeCount
           THEN pc' = pc /\ i' = i + 1 /\ result' = result
           ELSE pc' = "Aborted" /\ i' = i /\ result' = "False"
    /\ UNCHANGED <<files, dirs, head_hash, ref_path, hashes, futures, started,
                   done, threads, first, pack_matches>>

(***************************************************************************)
(* download_git_files: one iteration of the loop over git_files.           *)
(***************************************************************************)
BaseFetch ==
    /\ pc = "download_git_files"
    /\ \E resp \in Responses(git_files[i]) :
        /\ Fetch(git_files[i], resp, "download_git_files")
        /\ IF Escapes(git_files[i], resp) THEN pc' = "Raised" /\ i' = i
           ELSE IF i < Len(git_files) THEN pc' = pc /\ i' = i + 1
           ELSE pc' = "extract_hash_from_head" /\ i' = 1
    /\ UNCHANGED <<head_hash, ref_path, hashes, futures, started, done, threads, first,
                   pack_matches, result>>

(***************************************************************************)
(* extract_hash_from_head, lines 95-110 and 117-120: up to the fetch of    *)
(* the symbolic ref's target.                                              *)
(***************************************************************************)
ExtractHash ==
    /\ pc = "extract_hash_from_head"
    /\ IF ~exists(files, dirs, head_path)
       THEN pc' = "head_hash_check" /\ head_hash' = None /\ ref_path' = ref_path
       ELSE IF head_path \in dirs
       THEN pc' = "Raised" /\ UNCHANGED <<head_hash, ref_path>>
       ELSE LET content == strip(files[head_path])
                parts == split(content, ref_colon_space)
                target == join(join(output_dir, dot_git), parts[2])
            IN IF startswith(content, ref_colon)
               THEN IF Len(parts) < 2
                    THEN pc' = "Raised" /\ UNCHANGED <<head_hash, ref_path>>
                    ELSE /\ ref_path' = parts[2]
                         /\ IF exists(files, dirs, target)
                            THEN IF target \in dirs
                                 THEN pc' = "Raised" /\ head_hash' = head_hash
                                 ELSE pc' = "head_hash_check"
                                      /\ head_hash' = strip(files[target])
                            ELSE pc' = "ref_fetch" /\ head_hash' = head_hash
               ELSE /\ pc' = "head_hash_check"
                    /\ ref_path' = ref_path
                    /\ head_hash' = IF ref_pattern_match(content) THEN content ELSE None
    /\ UNCHANGED <<i, files, dirs, reqs, last, hashes, futures, started, done, threads, first,
                   pack_matches, result>>

\* line 112: the fetch of the target
RefFetch ==
    /\ pc = "ref_fetch"
    /\ \E resp \in Responses(join(dot_git, ref_path)) :
        /\ Fetch(join(dot_git, ref_path), resp, "extract_hash_from_head")
        /\ pc' = IF Escapes(join(dot_git, ref_path), resp) THEN "Raised" ELSE "ref_reread"
    /\ UNCHANGED <<i, head_hash, ref_path, hashes, futures, started, done, threads, first,
                   pack_matches, result>>

\* lines 114-116 and 120: the second look at the target
RefReread ==
    /\ pc = "ref_reread"
    /\ IF exists(files, dirs, local_ref_path)
       THEN IF local_ref_path \in dirs
            THEN pc' = "Raised" /\ head_hash' = head_hash
            ELSE pc' = "head_hash_check" /\ head_hash' = strip(files[local_ref_path])
       ELSE pc' = "head_hash_check" /\ head_hash' = None
    /\ UNCHANGED <<i, files, dirs, reqs, last, ref_path, hashes, futures, started, done,
                   threads, first, pack_matches, result>>

(***************************************************************************)
(* execute, lines 170-174: the object phase is entered or skipped.         *)
(***************************************************************************)
HeadHashCheck ==
    /\ pc = "head_hash_check"
    /\ IF ~falsy(head_hash)
       THEN pc' = "download_objects" /\ hashes' = <<head_hash>> /\ i' = 1
       ELSE pc' = "download_pack_files" /\ hashes' = hashes /\ i' = i
    /\ UNCHANGED <<files, dirs, reqs, last, head_hash, ref_path, futures, started, done,
                   threads, first, pack_matches, result>>

(***************************************************************************)
(* download_objects: the submitting loop, the workers of the executor and  *)
(* the wait.                                                               *)
(***************************************************************************)
\* lines 127-136: one iteration
Submit ==
    /\ pc = "download_objects"
    /\ i <= Len(hashes)
    /\ i' = i + 1
    /\ futures' = IF falsy(hashes[i]) \/ Len(hashes[i]) # HashLen
                  THEN futures
                  ELSE Append(futures, obj_path(hashes[i]))
    /\ UNCHANGED <<pc, files, dirs, reqs, last, head_hash, ref_path, hashes, started, done,
                   threads, first, pack_matches, result>>

\* the loop is over: line 138 is reached
EndSubmit ==
    /\ pc = "download_objects"
    /\ i > Len(hashes)
    /\ pc' = "wait"
    /\ UNCHANGED <<i, files, dirs, reqs, last, head_hash, ref_path, hashes, futures,
                   started, done, threads, first, pack_matches, result>>

\* an executor that starts a thread for every submitted call
worker_free_Unbounded == TRUE

\* ThreadPoolExecutor(max_workers=self.threads): a worker is free (line 124)
worker_free == Cardinality(inflight) < threads

\* a worker takes the oldest submitted call that has not begun
WorkerStart(t) ==
    /\ pc \in {"download_objects", "wait"}
    /\ t \in 1..Len(futures)
    /\ t \notin started
    /\ \A u \in 1..(t - 1) : u \in started
    /\ worker_free
    /\ started' = started \cup {t}
    /\ UNCHANGED <<pc, i, files, dirs, reqs, last, head_hash, ref_path, hashes, futures,
                   done, threads, first, pack_matches, result>>

\* the call of download_file in the worker gets its answer and returns
WorkerFinish(t) ==
    /\ t \in inflight
    /\ \E resp \in Responses(futures[t]) : Fetch(futures[t], resp, "download_objects")
    /\ done' = done \cup {t}
    /\ UNCHANGED <<pc, i, head_hash, ref_path, hashes, futures, started, threads, first,
                   pack_matches, result>>

\* wait(futures, return_when=FIRST_COMPLETED) on an executor that is not joined
all_done_FirstCompleted == done # {} \/ futures = <<>>

\* concurrent.futures.wait(futures) (line 138) may return
all_done == done = 1..Len(futures)

\* line 138 and the exit of the with block
Wait ==
    /\ pc = "wait"
    /\ all_done
    /\ pc' = "download_pack_files"
    /\ UNCHANGED <<i, files, dirs, reqs, last, head_hash, ref_path, hashes, futures,
                   started, done, threads, first, pack_matches, result>>

(***************************************************************************)
(* download_pack_files.                                                    *)
(***************************************************************************)
\* lines 142-150: the manifest is read and matched
PackStart ==
    /\ pc = "download_pack_files"
    /\ IF ~exists(files, dirs, packs_info_path)
       THEN pc' = "PacksDownloaded" /\ UNCHANGED <<i, pack_matches>>
       ELSE IF packs_info_path \in dirs
       THEN pc' = "Raised" /\ UNCHANGED <<i, pack_matches>>
       ELSE /\ pack_matches' = pack_pattern_findall(files[packs_info_path])
            /\ i' = 1
            /\ pc' = IF pack_matches' = <<>> THEN "PacksDownloaded" ELSE "pack_fetch"
    /\ UNCHANGED <<files, dirs, reqs, last, head_hash, ref_path, hashes, futures, started,
                   done, threads, first, result>>

\* the loop body with `if self.download_file(pack_path):` around line 156
PackFetch_SkipIdxOnFailure ==
    /\ pc = "pack_fetch"
    /\ \E resp \in Responses(pack_path(pack_matches[i][2])) :
        /\ Fetch(pack_path(pack_matches[i][2]), resp, "download_pack_files")
        /\ IF is_success(resp) THEN pc' = "idx_fetch" /\ i' = i
           ELSE IF i < Len(pack_matches) THEN pc' = "pack_fetch" /\ i' = i + 1
           ELSE pc' = "PacksDownloaded" /\ i' = i
    /\ UNCHANGED <<head_hash, ref_path, hashes, futures, started, done, threads, first,
                   pack_matches, result>>

\* line 155
PackFetch ==
    /\ pc = "pack_fetch"
    /\ \E resp \in Responses(pack_path(pack_matches[i][2])) :
        /\ Fetch(pack_path(pack_matches[i][2]), resp, "download_pack_files")
        /\ pc' = IF Escapes(pack_path(pack_matches[i][2]), resp) THEN "Raised" ELSE "idx_fetch"
    /\ UNCHANGED <<i, head_hash, ref_path, hashes, futures, started, done, threads, first,
                   pack_matches, result>>

\* line 156, and the next iteration or the end of the loop
IdxFetch ==
    /\ pc = "idx_fetch"
    /\ \E resp \in Responses(idx_path(pack_matches[i][2])) :
        /\ Fetch(idx_path(pack_matches[i][2]), resp, "download_pack_files")
        /\ IF Escapes(idx_path(pack_matches[i][2]), resp) THEN pc' = "Raised" /\ i' = i
           ELSE IF i < Len(pack_matches) THEN pc' = "pack_fetch" /\ i' = i + 1
           ELSE pc' = "PacksDownloaded" /\ i' = i
    /\ UNCHANGED <<head_hash, ref_path, hashes, futures, started, done, threads, first,
                   pack_matches, result>>

\* execute, lines 179-182
Return ==
    /\ pc = "PacksDownloaded"
    /\ pc' = "Done"
    /\ result' = "True"
    /\ UNCHANGED <<i, files, dirs, reqs, last, head_hash, ref_path, hashes, futures,
                   started, done, threads, first, pack_matches>>

(***************************************************************************)
(* A run of execute().                                                     *)
(***************************************************************************)
Next ==
    \/ Probe
    \/ BaseFetch
    \/ ExtractHash
    \/ RefFetch
    \/ RefReread
    \/ HeadHashCheck
    \/ Submit
    \/ EndSubmit
    \/ \E t \in 1..MaxHashes : WorkerStart(t)
    \/ \E t \in 1..MaxHashes : WorkerFinish(t)
    \/ Wait
    \/ PackStart
    \/ PackFetch
    \/ IdxFetch
    \/ Return

Spec == Init /\ [][Next]_vars

(***************************************************************************)
(* download_objects(hashes) called on a list of entries, followed by       *)
(* download_pack_files(), on a tree that holds a manifest or not.          *)
(***************************************************************************)
Short == <<"a","b","c">>

HashEntries == {H1, H2, None, Short}

RECURSIVE SeqsUpTo(_, _)
SeqsUpTo(S, n) ==
    IF n = 0 THEN {<<>>}
    ELSE SeqsUpTo(S, n - 1) \cup {Append(s, x) : s \in {q \in SeqsUpTo(S, n - 1) : Len(q) = n - 1}, x \in S}

PoolInit ==
    /\ pc = "download_objects"
    /\ i = 1
    /\ \E manifest \in {TRUE, FALSE} :
        /\ files = IF manifest THEN Write(<<>>, packs_info_path, ManifestTwo) ELSE <<>>
        /\ dirs = {output_dir, git_dir}
                    \cup (IF manifest THEN Ancestors(dirname(packs_info_path)) ELSE {})
    /\ reqs = <<>>
    /\ last = NoCall
    /\ head_hash = None
    /\ ref_path = None
    /\ hashes \in SeqsUpTo(HashEntries, MaxHashes)
    /\ futures = <<>>
    /\ started = {}
    /\ done = {}
    /\ threads \in 1..MaxThreads
    /\ pack_matches = <<>>
    /\ result = "none"
    /\ first = NoRun

PoolNext ==
    \/ Submit
    \/ EndSubmit
    \/ \E t \in 1..MaxHashes : WorkerStart(t)
    \/ \E t \in 1..MaxHashes : WorkerFinish(t)
    \/ Wait
    \/ PackStart
    \/ PackFetch
    \/ IdxFetch

PoolSpec == PoolInit /\ [][PoolNext]_vars

(***************************************************************************)
(* A second run on the same output directory against the same server: the  *)
(* scanner is constructed again (__init__, lines 41-46) and execute() is   *)
(* called again.                                                           *)
(***************************************************************************)
\* __init__ with an unconditional os.makedirs: it raises on a directory that exists
init_dirs_NoExistsCheck(ds) ==
    [dirs |-> ds \cup {output_dir, git_dir}, raised |-> output_dir \in ds \/ git_dir \in ds]

\* __init__, lines 41-46: each directory is created only where os.path.exists is false
init_dirs(ds) ==
    [dirs |-> (IF output_dir \in ds THEN ds ELSE ds \cup {output_dir})
                \cup (IF git_dir \in ds THEN {} ELSE {git_dir}),
     raised |-> FALSE]

\* what the server has answered so far, in this run and in the earlier one
Served ==
    first.served \cup {[method |-> reqs[j].method, path |-> reqs[j].path, ok |-> reqs[j].ok] :
                          j \in 1..Len(reqs)}

Restart ==
    /\ pc \in {"Done", "Aborted", "Raised"}
    /\ first = NoRun
    /\ first' = [pc |-> pc, files |-> files, dirs |-> dirs, served |-> Served]
    /\ dirs' = init_dirs(dirs).dirs
    /\ pc' = IF init_dirs(dirs).raised THEN "Raised" ELSE "check_git_exists"
    /\ i' = 1
    /\ reqs' = <<>>
    /\ last' = NoCall
    /\ head_hash' = None
    /\ ref_path' = None
    /\ hashes' = <<>>
    /\ futures' = <<>>
    /\ started' = {}
    /\ done' = {}
    /\ pack_matches' = <<>>
    /\ result' = "none"
    /\ UNCHANGED <<files, threads>>

\* The server does not change: a request that repeats an earlier one (same
\* method, same path) is answered with the same outcome, and a body that was
\* stored before is served again byte for byte.
SameServer ==
    LET r == reqs'[Len(reqs')]
    IN \A e \in Served :
        (e.method = r.method /\ e.path = r.path) =>
            /\ is_success(last'.resp) = e.ok
            /\ (r.method = "GET" /\ e.ok) =>
                    last'.resp.content = files[join(output_dir, r.path)]

RerunProbe == Probe /\ SameServer

\* The catalog files the program writes and never reads back.  In the rerun
\* specification the server holds all of them or none: the runs compared differ
\* in the files that steer the program (HEAD, the refs, the manifest).
UnreadCatalog == {git_files[2], git_files[3], git_files[4], git_files[8]}

UnreadAnswerAlike ==
    LET r == reqs'[Len(reqs')]
    IN r.path \in UnreadCatalog =>
        \A j \in 1..Len(reqs) :
            (reqs[j].method = "GET" /\ reqs[j].path \in UnreadCatalog) => reqs[j].ok = r.ok

RerunBaseFetch == BaseFetch /\ SameServer /\ UnreadAnswerAlike

RerunRefFetch == RefFetch /\ SameServer

RerunWorkerFinish(t) == WorkerFinish(t) /\ SameServer

RerunPackFetch == PackFetch /\ SameServer

RerunIdxFetch == IdxFetch /\ SameServer

RerunNext ==
    \/ RerunProbe
    \/ RerunBaseFetch
    \/ ExtractHash
    \/ RerunRefFetch
    \/ RefReread
    \/ HeadHashCheck
    \/ Submit
    \/ EndSubmit
    \/ \E t \in 1..MaxHashes : WorkerStart(t)
    \/ \E t \in 1..MaxHashes : RerunWorkerFinish(t)
    \/ Wait
    \/ PackStart
    \/ RerunPackFetch
    \/ RerunIdxFetch
    \/ Return
    \/ Restart

RerunSpec == Init /\ [][RerunNext]_vars

(***************************************************************************)
(* download_objects as execute() calls it, and as called on a list of      *)
(* entries over an empty tree.                                             *)
(***************************************************************************)
ObjectsInit == Init \/ (PoolInit /\ files = <<>>)

ObjectsSpec == ObjectsInit /\ [][Next]_vars

(***************************************************************************)
(* Vocabulary of the properties.                                           *)
(***************************************************************************)
\* the positions of the GET requests in reqs
Gets == {j \in 1..Len(reqs) : reqs[j].method = "GET"}

\* the positions of the GET requests for path p
GetsOf(p) == {j \in Gets : reqs[j].path = p}

\* a ContentHash: exactly 40 lowercase hexadecimal characters
ContentHash(h) == Len(h) = HashLen /\ \A j \in 1..HashLen : h[j] \in HexDigits

\* the phase a request belongs to
PhaseRank(by) ==
    CASE by = "check_git_exists" -> 1
      [] by = "download_git_files" -> 2
      [] by = "extract_hash_from_head" -> 3
      [] by = "download_objects" -> 4
      [] by = "download_pack_files" -> 5

ProbeSucceeded == \E j \in 1..Len(reqs) : reqs[j].method = "HEAD" /\ reqs[j].ok

AllProbesFailed ==
    /\ Len(reqs) >= ProbeCount
    /\ \A j \in 1..ProbeCount : reqs[j].method = "HEAD" /\ ~reqs[j].ok

PackPhase == pc \in {"download_pack_files", "pack_fetch", "idx_fetch", "PacksDownloaded", "Done"}

\* execute() has returned, or an exception has left it
Stopped == pc \in {"Done", "Aborted", "Raised"}

\* this step is a call of download_file
FetchStep == Len(reqs') = Len(reqs) + 1 /\ reqs'[Len(reqs')].method = "GET"

(***************************************************************************)
(* Properties.                                                             *)
(***************************************************************************)
\* C1: when the three HEAD probes all fail, the run is aborted with result
\* False, no GET has been issued and the output tree is as __init__ left it.
C1_NoDownloadAfterFailedProbe ==
    AllProbesFailed =>
        /\ pc = "Aborted"
        /\ result = "False"
        /\ Gets = {}
        /\ files = <<>>
        /\ dirs = {output_dir, git_dir}

C1_Witness == AllProbesFailed /\ pc = "Aborted" /\ Len(reqs) = ProbeCount

\* C2: once a probe has succeeded the requests are issued phase after phase
\* in the fixed order, the object phase is skipped exactly when resolution
\* yields nothing, a run that has stopped has stopped in Done with result
\* True, and an aborted run has never left Start.
C2_PhasesInOrderUntilDone ==
    /\ PackPhase => (falsy(head_hash) <=> hashes = <<>>)
    /\ \A j, h \in 1..Len(reqs) : j < h => PhaseRank(reqs[j].by) <= PhaseRank(reqs[h].by)
    /\ (ProbeSucceeded /\ Stopped) => (pc = "Done" /\ result = "True")
    /\ pc = "Aborted" => ~ProbeSucceeded /\ Gets = {}

\* C3: whatever the downloaded HEAD contains, extract_hash_from_head returns
\* (a value or nothing) and never raises.
C3_ResolutionNeverRaises ==
    [][(pc \in {"extract_hash_from_head", "ref_fetch", "ref_reread"}) => (pc' # "Raised")]_vars

\* C4: every GET issued by download_objects is for the object path of a value
\* that is a ContentHash.
C4_OnlyContentHashesFetched ==
    \A j \in Gets :
        reqs[j].by = "download_objects" =>
            \E h \in 1..Len(hashes) :
                ~falsy(hashes[h]) /\ reqs[j].path = obj_path(hashes[h]) /\ ContentHash(hashes[h])

\* C5: the number of download_file calls begun and not finished never exceeds
\* the pool size.
C5_InFlightAtMostThreads == Cardinality(inflight) <= threads

C5_Witness ==
    /\ Len(futures) > threads
    /\ Cardinality(inflight) = threads
    /\ \E t \in 1..Len(futures) : t \notin started

\* C6: after download_objects has returned, and so in the whole pack phase,
\* every submitted object fetch has finished; no object request follows a pack
\* request.
C6_JoinIsBarrier ==
    /\ PackPhase => (done = 1..Len(futures) /\ inflight = {})
    /\ \A j, h \in Gets :
        (j < h /\ reqs[j].by = "download_pack_files") => reqs[h].by = "download_pack_files"

C6_Witness ==
    /\ Len(futures) >= 2
    /\ \E j \in Gets : reqs[j].by = "download_pack_files"
    /\ \E j \in Gets : reqs[j].by = "download_objects" /\ ~reqs[j].ok

\* C7: no two calls of download_file in flight have the same local path.
C7_NoTwoInFlightOnSamePath ==
    \A t, u \in inflight :
        t # u => join(output_dir, futures[t]) # join(output_dir, futures[u])

C9_FailedFetchLeavesTreeUnchanged ==
    [][/\ (FetchStep /\ ~is_success(last'.resp)) =>
            /\ files' = files
            /\ dirs' = dirs
            /\ last'.ret = FALSE
            /\ reqs'[Len(reqs')].ok = FALSE
            /\ (pc' # "Raised")
       /\ (files' # files \/ dirs' # dirs) => (FetchStep /\ is_success(last'.resp))]_vars

C9_Witness ==
    /\ Gets # {}
    /\ reqs[Len(reqs)].method = "GET"
    /\ last.resp.kind = "response"
    /\ last.resp.status_code = 404
    /\ last.ret = FALSE
    /\ files # <<>>

\* C10: a request answered with a status in 200..299 is a success (the file
\* is saved and True returned, the probed path is found) and one answered
\* with any other status is a failure.
C10_Any2xxIsSuccess ==
    (last.path # <<>> /\ last.resp.kind = "response") =>
        /\ last.ret = (last.resp.status_code \in 200..299)
        /\ reqs[Len(reqs)].ok = (last.resp.status_code \in 200..299)

\* extract_hash_from_head has returned
Resolved ==
    pc \in {"head_hash_check", "download_objects", "wait", "download_pack_files",
            "pack_fetch", "idx_fetch", "PacksDownloaded", "Done"}

\* the downloaded HEAD holds a bare hash (with surrounding white space)
HeadIsBareHash == head_path \in DOMAIN files /\ ContentHash(strip(files[head_path]))

\* C11: when HEAD holds a bare 40-hex hash, resolution returns that hash, it
\* does not raise, and it issues no request of its own.
C11_BareHashResolvesToItself ==
    (HeadIsBareHash /\ pc \notin {"check_git_exists", "download_git_files",
                                  "extract_hash_from_head", "Aborted"}) =>
        /\ Resolved
        /\ head_hash = strip(files[head_path])
        /\ \A j \in 1..Len(reqs) : reqs[j].by # "extract_hash_from_head"

C11_Witness ==
    /\ HeadIsBareHash
    /\ pc = "Done"
    /\ \E j \in Gets : reqs[j].by = "download_objects" /\ reqs[j].path = obj_path(H1)

\* the downloaded HEAD has the form "ref: <path>"
HeadIsSymbolic ==
    /\ head_path \in DOMAIN files
    /\ startswith(strip(files[head_path]), ref_colon_space)
    /\ Len(strip(files[head_path])) > Len(ref_colon_space)

\* the path named by a symbolic HEAD, and the file it is saved in
SymbolicTarget == From(strip(files[head_path]), Len(ref_colon_space))

SymbolicTargetFile == join(git_dir, SymbolicTarget)

\* the requests issued by reference resolution
ResolutionGets == {j \in Gets : reqs[j].by = "extract_hash_from_head"}

\* C12: for a HEAD of the form "ref: <path>" resolution does not raise; it
\* issues at most one request, for the target and only when the target was
\* absent locally; it returns the trimmed content of the target file when that
\* file exists, nothing otherwise, and follows no second indirection.
C12_SymbolicRefResolvedWithOneFetch ==
    (HeadIsSymbolic /\ pc \notin {"check_git_exists", "download_git_files",
                                  "extract_hash_from_head", "Aborted"}) =>
        /\ pc # "Raised"
        /\ Cardinality(ResolutionGets) <= 1
        /\ \A j \in ResolutionGets :
            /\ reqs[j].path = join(dot_git, SymbolicTarget)
            /\ \A h \in GetsOf(reqs[j].path) : h < j => ~reqs[h].ok
        /\ pc = "ref_fetch" => (ResolutionGets = {} /\ SymbolicTargetFile \notin DOMAIN files)
        /\ Resolved =>
            /\ head_hash = IF SymbolicTargetFile \in DOMAIN files
                           THEN strip(files[SymbolicTargetFile])
                           ELSE None
            /\ ResolutionGets = {} => SymbolicTargetFile \in DOMAIN files

EndsWith(s, p) == Len(s) >= Len(p) /\ SubSeq(s, Len(s) - Len(p) + 1, Len(s)) = p

IsPackRequest(r) == r.by = "download_pack_files"

\* the requests of download_pack_files, in the order issued
PackReqs == SelectSeq(reqs, IsPackRequest)

\* the filenames of the manifest on disk, in manifest order
ManifestNames ==
    IF packs_info_path \in DOMAIN files
    THEN [j \in 1..Len(pack_pattern_findall(files[packs_info_path])) |->
             pack_pattern_findall(files[packs_info_path])[j][2]]
    ELSE <<>>

\* C13: without a manifest download_pack_files issues no request; with k
\* manifest entries it issues 2k requests, one after the other: for each
\* entry in manifest order the .pack file and then an .idx file, whether the
\* .pack request succeeded or not.
C13_PackThenIdxPerEntry ==
    /\ (packs_info_path \in DOMAIN files /\ files[packs_info_path] = ManifestTwo) =>
            ManifestNames = << <<"a",".","p","a","c","k">>,
                               <<"b",".","p","a","c","k",".","p","a","c","k">> >>
    /\ Len(PackReqs) <= 2 * Len(ManifestNames)
    /\ \A j \in 1..Len(PackReqs) :
        /\ PackReqs[j].method = "GET"
        /\ (j % 2 = 1) => PackReqs[j].path = pack_prefix \o ManifestNames[(j + 1) \div 2]
        /\ (j % 2 = 0) => /\ startswith(PackReqs[j].path, pack_prefix)
                          /\ EndsWith(PackReqs[j].path, dot_idx)
    /\ pc = "pack_fetch" => Len(PackReqs) = 2 * (i - 1)
    /\ pc = "idx_fetch" => Len(PackReqs) = 2 * i - 1
    /\ pc \in {"PacksDownloaded", "Done"} => Len(PackReqs) = 2 * Len(ManifestNames)

C13_Witness ==
    /\ pc = "PacksDownloaded"
    /\ Len(PackReqs) = 4
    /\ ~PackReqs[1].ok
    /\ PackReqs[2].ok

\* C14: the index file requested for a manifest entry is named like the pack
\* file with only its final ".pack" replaced by ".idx".
C14_IdxNameReplacesOnlySuffix ==
    \A j \in 1..Len(PackReqs) :
        (j % 2 = 0) =>
            PackReqs[j].path =
                pack_prefix
                    \o Upto(ManifestNames[j \div 2], Len(ManifestNames[j \div 2]) - Len(dot_pack))
                    \o dot_idx


SuccessStatus(resp) == resp.kind = "response" /\ resp.status_code \in 200..299

\* the HEAD requests sent so far
ProbeReqs == {j \in 1..Len(reqs) : reqs[j].method = "HEAD"}

\* C16: check_git_exists sends header-only requests to the first three catalog
\* paths in catalog order and to nothing else, writes nothing, returns true
\* exactly when a probed path answers with a success status, probes no further
\* after that, and goes on to the next path when a probe fails or raises.
C16_ProbeFirstThreeUntilSuccess ==
    [][(pc = "check_git_exists") =>
          /\ i <= ProbeCount
          /\ ProbeReqs = 1..(i - 1)
          /\ reqs' = Append(reqs, Request("HEAD", git_files[i], "check_git_exists",
                                          reqs'[Len(reqs')].ok))
          /\ files' = files /\ dirs' = dirs
          /\ (pc' = "download_git_files") = SuccessStatus(last'.resp)
          /\ (pc' = "Aborted" /\ result' = "False") = (~SuccessStatus(last'.resp) /\ i = ProbeCount)
          /\ (pc' = "check_git_exists" /\ i' = i + 1) = (~SuccessStatus(last'.resp) /\ i < ProbeCount)
          /\ (pc' # "check_git_exists") => (ProbeReqs' = 1..i /\ \A j \in 1..Len(reqs') : j > i => reqs'[j].method = "GET")
      ]_vars


\* the entries download_objects has looked at so far
Scanned == IF pc = "download_objects" THEN SubSeq(hashes, 1, i - 1) ELSE hashes

\* an entry that is null or not of length 40
NullOrNot40(h) == h = None \/ Len(h) # 40

Kept(h) == ~NullOrNot40(h)

\* objects/<h[0:2]>/<h[2:40]> under the metadata directory
TwoLevelPath(h) ==
    <<".","g","i","t","/","o","b","j","e","c","t","s","/">> \o SubSeq(h, 1, 2) \o <<"/">> \o SubSeq(h, 3, 40)

ObjectGets == {j \in Gets : reqs[j].by = "download_objects"}

\* C17: the paths handed to the pool are, in order, objects/<h[0:2]>/<h[2:40]>
\* under .git for the entries h that are neither null nor of a length other
\* than 40 (so a null or short entry produces no fetch); the path of a 40-hex h
\* is .git/objects/, two characters, a slash and 38 characters, and the two
\* components concatenate to h;
\* the object fetches are those paths, each at most once, stored under
\* output_dir/.git/objects; and a run of execute() fetches at most one loose
\* object, the one named by the hash resolved from HEAD.
C17_ObjectPathRoundTrip ==
    /\ Len(futures) = Len(SelectSeq(Scanned, Kept))
    /\ \A k \in 1..Len(futures) :
        LET h == SelectSeq(Scanned, Kept)[k]
            p == futures[k]
        IN /\ p = TwoLevelPath(h)
           /\ ContentHash(h) =>
                /\ Len(p) = 54
                /\ SubSeq(p, 1, 13) = <<".","g","i","t","/","o","b","j","e","c","t","s","/">>
                /\ p[16] = "/"
                /\ SubSeq(p, 14, 15) \o SubSeq(p, 17, 54) = h
    /\ Cardinality(ObjectGets) = Cardinality(done)
    /\ \A j \in ObjectGets :
        /\ \E t \in done : reqs[j].path = futures[t]
        /\ reqs[j].ok => join(output_dir, reqs[j].path) \in DOMAIN files
        /\ startswith(join(output_dir, reqs[j].path), git_dir \o <<"/","o","b","j","e","c","t","s","/">>)
    /\ ProbeReqs # {} =>
        /\ Cardinality(ObjectGets) <= 1
        /\ Len(futures) <= 1
        /\ \A k \in 1..Len(futures) : futures[k] = TwoLevelPath(head_hash)

C17_Witness ==
    /\ hashes = <<None, Short, H1>>
    /\ pc = "PacksDownloaded"
    /\ futures = <<TwoLevelPath(H1)>>
    /\ \E j \in ObjectGets : reqs[j].ok /\ reqs[j].path = TwoLevelPath(H1)


\* os.path.normpath on the components of a path: empty and "." components
\* dropped, ".." cancelling the component before it
RECURSIVE norm(_, _)
norm(parts, acc) ==
    IF parts = <<>> THEN acc
    ELSE LET c == Head(parts)
         IN IF c = <<>> \/ c = <<".">> THEN norm(Tail(parts), acc)
            ELSE IF c = <<".",".">> /\ acc # <<>> /\ acc[Len(acc)] # <<".",".">>
            THEN norm(Tail(parts), SubSeq(acc, 1, Len(acc) - 1))
            ELSE norm(Tail(parts), Append(acc, c))

\* the file named p lies inside output_dir/.git
InsideGitDir(p) ==
    /\ p # <<>>
    /\ Head(p) # "/"
    /\ LET n == norm(split(p, <<"/">>), <<>>)
       IN Len(n) > 2 /\ n[1] = output_dir /\ n[2] = dot_git

\* C18: every file written lies inside output_dir/.git, whatever symbolic-ref
\* target the server supplies.
C18_WritesStayInsideGitDir == \A p \in DOMAIN files : InsideGitDir(p)

====
